---- MODULE Spec2Model ----
(***************************************************************************)
(* Model of the pixel-level-decorrelation core of zen: the numeric helpers *)
(* of src/zen_funcs.py (zen_init, eclipse, bindata, get_params) and the    *)
(* bin-width sweep of main() in src/zen.py.                                *)
(*                                                                         *)
(* Numbers are integers or exact fractions [num, den]; a fraction is kept  *)
(* in lowest terms with a positive denominator.  A Python exception is a   *)
(* result whose status names the exception.                                *)
(***************************************************************************)
EXTENDS Integers, Sequences, FiniteSets, TLC

VARIABLES
    \* get_params(bestP, stepsize, params) and its return value
    bestP, stepsize, params, allParams,
    \* bindata(x, y, width[, yerr]): the phase axis x, a pixel-flux column y,
    \* the photometry phot with its uncertainty photerr, and the two returns
    x, y, phot, photerr, width, binpix, binpht,
    \* eclipse(t, eclparams) and its return value
    t, eclparams, eclret,
    \* zen_init(data, pixels) and its return value
    data, pixels, initret,
    \* main(): the good-frame inputs of the sweep, the candidate widths, the
    \* loop index i (sweep_i), the running best, the table of reduced chi-squared, the
    \* binned arrays of the latest iteration, what the MCMC driver and the
    \* final model evaluations were handed, and the exception that ended it
    phasegood, phatgood, bintry, sweep_i, chibest, binbest, chisqarray,
    binphase, binphat, binphotnorm, binphoterrnorm,
    mcmcargs, bestfit, noeclfit, error,
    \* history: the reduced chi-squared line 181 computed, one per finished
    \* iteration, in scan order
    redchisq_log,
    \* which function a harness specification is about to call / has called
    pc

-----------------------------------------------------------------------------
(* Bounds of the model *)

MaxLen == 3          \* longest stepsize / params vector drawn
MaxBestP == MaxLen + 1   \* longest reduced vector drawn: one more than can be free
MaxN == 3            \* most samples handed to bindata
MaxX == MaxN         \* largest phase value drawn (phases are 0..MaxX)
MaxWidth == MaxN + 1 \* largest bin width drawn (widths are 1..MaxWidth)
MaxDim == 2          \* largest image height / width drawn
MaxFrames == 2       \* most frames drawn
npix == 2            \* pixels fed to the model (zen.py line 72 uses 9)
necl == 6            \* zen.py line 73: number of eclipse parameters

-----------------------------------------------------------------------------
(* Generic helpers *)

None == "None"
\* 0/0: what the mean of an empty selection evaluates to
NaN == [num |-> 0, den |-> 0]

Abs(a) == IF a < 0 THEN -a ELSE a

RECURSIVE SeqsUpTo(_, _)
\* all sequences over S of length 0..n
SeqsUpTo(S, n) ==
    IF n = 0 THEN {<<>>}
    ELSE LET shorter == SeqsUpTo(S, n - 1)
         IN shorter \cup {Append(q, v) : q \in {r \in shorter : Len(r) = n - 1}, v \in S}

SeqsOfLen(S, n) == {q \in SeqsUpTo(S, n) : Len(q) = n}

\* Python / numpy indexing of a sequence of length n with the integer k:
\* the 1-based position read, or 0 when the access raises IndexError.
PyIndex(n, k) ==
    IF k >= 0 /\ k < n THEN k + 1
    ELSE IF k < 0 /\ k >= -n THEN n + k + 1
    ELSE 0


RECURSIVE GCD(_, _)
GCD(a, b) == IF b = 0 THEN a ELSE GCD(b, a % b)

\* the fraction n/d (d # 0) in lowest terms, denominator positive
Frac(n, d) ==
    LET g == GCD(Abs(n), Abs(d))
        sgn == IF d < 0 THEN -1 ELSE 1
    IN [num |-> sgn * (n \div g), den |-> sgn * (d \div g)]

FracAdd(a, b) == Frac(a.num * b.den + b.num * a.den, a.den * b.den)
FracSub(a, b) == Frac(a.num * b.den - b.num * a.den, a.den * b.den)
FracLess(a, b) == a.num * b.den < b.num * a.den

RECURSIVE Sum(_)
Sum(q) == IF Len(q) = 0 THEN 0 ELSE Head(q) + Sum(Tail(q))

SeqMin(q) == CHOOSE m \in {q[i] : i \in 1..Len(q)} : \A i \in 1..Len(q) : m <= q[i]
SeqMax(q) == CHOOSE m \in {q[i] : i \in 1..Len(q)} : \A i \in 1..Len(q) : m >= q[i]

\* ndarray.mean(): the exact mean, NaN for an empty array
Mean(q) == IF Len(q) = 0 THEN NaN ELSE Frac(Sum(q), Len(q))

\* a[mask] with a boolean mask: the entries of a at the positions where
\* keep[i] holds, in order
RECURSIVE Compress(_, _)
Compress(a, keep) ==
    IF Len(a) = 0 THEN <<>>
    ELSE IF Head(keep) THEN <<Head(a)>> \o Compress(Tail(a), Tail(keep))
         ELSE Compress(Tail(a), Tail(keep))

-----------------------------------------------------------------------------
(* get_params: src/zen_funcs.py 283-304 *)

\* bestP[j] of the first loop (line 294); j never goes below 0.
FreeEntry(bp, j) ==
    IF PyIndex(Len(bp), j) = 0 THEN [status |-> "IndexError"]
    ELSE [status |-> "ok", value |-> bp[PyIndex(Len(bp), j)]]

\* int(-stepsize[i]-1) of the second loop (line 302)
TiedIndex_onebased(s) == -s

TiedIndex(s) == -s - 1

RECURSIVE FirstPass(_, _, _, _, _, _)
\* lines 292-297: i is the 0-based loop index, j the count of bestP entries
\* consumed so far, acc the entries of allParams written so far.
FirstPass(bp, ss, ps, i, j, acc) ==
    IF i >= Len(ss) THEN [status |-> "ok", value |-> acc]
    ELSE IF ss[i + 1] > 0
         THEN LET e == FreeEntry(bp, j)
              IN IF e.status # "ok" THEN [status |-> e.status]
                 ELSE FirstPass(bp, ss, ps, i + 1, j + 1, Append(acc, e.value))
         ELSE IF PyIndex(Len(ps), i) = 0 THEN [status |-> "IndexError"]
              ELSE FirstPass(bp, ss, ps, i + 1, j, Append(acc, ps[PyIndex(Len(ps), i)]))

RECURSIVE SecondPass(_, _, _)
\* lines 300-302: each negative entry is overwritten, in index order, by the
\* current content of allParams at the tied index.
SecondPass(ss, i, acc) ==
    IF i >= Len(ss) THEN [status |-> "ok", value |-> acc]
    ELSE IF ss[i + 1] < 0
         THEN LET k == PyIndex(Len(acc), TiedIndex(ss[i + 1]))
              IN IF k = 0 THEN [status |-> "IndexError"]
                 ELSE SecondPass(ss, i + 1, [acc EXCEPT ![i + 1] = acc[k]])
         ELSE SecondPass(ss, i + 1, acc)

\* number of positive entries of a stepsize vector
NumFreeOf(ss) == Cardinality({k \in 1..Len(ss) : ss[k] > 0})

get_params(bp, ss, ps) ==
    LET first == FirstPass(bp, ss, ps, 0, 0, <<>>)
    IN IF first.status # "ok" THEN first
       ELSE SecondPass(ss, 0, first.value)


-----------------------------------------------------------------------------
(* bindata: src/zen_funcs.py 189-220 *)

RECURSIVE arange(_, _, _)
\* np.arange(start, stop, step) for step > 0: start, start+step, ... < stop
arange(start, stop, step) ==
    IF start >= stop THEN <<>> ELSE <<start>> \o arange(start + step, stop, step)

\* np.digitize(v, bins) for increasing bins: the i with
\* bins[i-1] <= v < bins[i], 0 below bins[0], len(bins) from bins[-1] on;
\* 0 for every v when bins is empty (numpy releases whose digitize rejects
\* empty bins raise ValueError there instead)
digitize(v, bins) == Cardinality({k \in 1..Len(bins) : bins[k] <= v})

\* a[digitized == i]
InBin(a, xs, bins, i) == Compress(a, [s \in 1..Len(a) |-> digitize(xs[s], bins) = i])

\* lines 205-210: the bin stays in the mask unless its y or x selection is
\* empty
BinMask_none(ysel, xsel) == TRUE

BinMask_truthy(ysel, xsel) == Sum(ysel) # 0 /\ Len(xsel) # 0

BinMask(ysel, xsel) == ~(Len(ysel) = 0) /\ ~(Len(xsel) = 0)

\* line 212: sqrt(sum(yerr**2)) / n, kept as the pair (sum of squares, n);
\* NaN for an empty selection (0/0)
RECURSIVE SumSq(_)
SumSq(q) == IF Len(q) = 0 THEN 0 ELSE Head(q) * Head(q) + SumSq(Tail(q))
ErrNaN == [sqrt_of |-> 0, over |-> 0]
BinErr(esel) == IF Len(esel) = 0 THEN ErrNaN ELSE [sqrt_of |-> SumSq(esel), over |-> Len(esel)]

\* the optional argument yerr: absent (None) or an array
NoErr == [given |-> FALSE]
WithErr(e) == [given |-> TRUE, value |-> e]

bindata(xs, ys, w, yerr) ==
    LET bins == arange(SeqMin(xs), SeqMax(xs), w)
        nb == Len(bins)
        bin_means_y == [i \in 1..nb |-> Mean(InBin(ys, xs, bins, i))]
        bin_means_x == [i \in 1..nb |-> Mean(InBin(xs, xs, bins, i))]
        binmask == [i \in 1..nb |-> BinMask(InBin(ys, xs, bins, i), InBin(xs, xs, bins, i))]
    IN IF yerr.given
       THEN [x |-> Compress(bin_means_x, binmask),
             y |-> Compress(bin_means_y, binmask),
             yerr |-> Compress([i \in 1..nb |-> BinErr(InBin(yerr.value, xs, bins, i))],
                               binmask)]
       ELSE [x |-> Compress(bin_means_x, binmask),
             y |-> Compress(bin_means_y, binmask)]


-----------------------------------------------------------------------------
(* eclipse: src/zen_funcs.py 72-140 *)
(* Times are compared in doubled units so that width/2 stays exact.  A     *)
(* sample of the light curve is a record: a flat level, or the ingress /   *)
(* egress expression with the position (t - t1)/t12 resp. (t - t3)/t34 at  *)
(* which the disk-overlap formula is evaluated.                            *)

Level(v) == [kind |-> "level", at |-> Frac(v, 1)]
Ratio(n, d) == IF d = 0 THEN NaN ELSE Frac(n, d)

\* line 91: the zero-depth test
ZeroDepth_never(depth) == FALSE

ZeroDepth(depth) == depth = 0

\* lines 119-136 for one sample ti
EclipseSample(ti, midpt, ewidth, depth, t12, t34) ==
    LET t1x2 == 2 * midpt - ewidth
        t2x2 == IF t1x2 + 2 * t12 < 2 * midpt THEN t1x2 + 2 * t12 ELSE 2 * midpt
        t4x2 == 2 * midpt + ewidth
        t3x2 == IF t4x2 - 2 * t34 > 2 * midpt THEN t4x2 - 2 * t34 ELSE 2 * midpt
    IN IF 2 * ti >= t2x2 /\ 2 * ti <= t3x2 THEN Level(1 - depth)
       \* p != 0 holds for every depth: p is NaN when depth is 0
       ELSE IF 2 * ti >= t1x2 /\ 2 * ti <= t2x2
            THEN [kind |-> "ingress", at |-> Ratio(2 * ti - t1x2, 2 * t12)]
       ELSE IF 2 * ti > t3x2 /\ 2 * ti < t4x2
            THEN [kind |-> "egress", at |-> Ratio(2 * ti - t3x2, 2 * t34)]
       ELSE Level(1)

\* the divisions the general path performs for one sample
SampleDivisors(ti, midpt, ewidth, depth, t12, t34) ==
    LET v == EclipseSample(ti, midpt, ewidth, depth, t12, t34)
    IN IF v.kind = "ingress" THEN {"t12", "depth"}
       ELSE IF v.kind = "egress" THEN {"t34", "depth"}
       ELSE {}

\* y is the returned array; divisors names the quantities the executed path
\* divided by (line 111 divides by abs(depth) for every input that gets
\* past line 93)
eclipse(ts, ep) ==
    LET midpt == ep[1]
        ewidth == ep[2]
        depth == ep[3]
        t12 == ep[4]
        t34 == ep[5]
    IN IF ZeroDepth(depth)
       THEN [y |-> [i \in 1..Len(ts) |-> Level(1)], divisors |-> {}]
       ELSE [y |-> [i \in 1..Len(ts) |-> EclipseSample(ts[i], midpt, ewidth, depth, t12, t34)],
             divisors |-> {"depth"} \cup
                 UNION {SampleDivisors(ts[i], midpt, ewidth, depth, t12, t34) : i \in 1..Len(ts)}]

-----------------------------------------------------------------------------
(* zen_init: src/zen_funcs.py 5-70 *)
(* data[j][r][c] is channel 0 of frame j at row r, column c (0-based).      *)

RECURSIVE FracSum(_)
FracSum(q) == IF Len(q) = 0 THEN Frac(0, 1) ELSE FracAdd(Head(q), FracSum(Tail(q)))

\* one subscript of data[j, r, c, 0] on an axis of length n (line 55): the
\* 0-based position read, or -1 when numpy raises IndexError
AxisIndex_strict(n, k) == IF k >= 0 /\ k < n THEN k ELSE -1

AxisIndex(n, k) == PyIndex(n, k) - 1

\* lines 44-70
zen_init(d, px) ==
    LET nframes == Cardinality(DOMAIN d)
        ny == Cardinality(DOMAIN d[0])
        nx == Cardinality(DOMAIN d[0][0])
        np == Len(px)
        bad == \E i \in 1..np : AxisIndex(ny, px[i][1]) < 0 \/ AxisIndex(nx, px[i][2]) < 0
        p == [j \in 1..nframes |->
                [i \in 1..np |-> d[j - 1][AxisIndex(ny, px[i][1])][AxisIndex(nx, px[i][2])]]]
        phat == [j \in 1..nframes |-> [i \in 1..np |-> Frac(p[j][i], Sum(p[j]))]]
        pbar == [i \in 1..np |->
                   LET col == [j \in 1..nframes |-> phat[j][i]]
                       tot == FracSum(col)
                   IN Frac(tot.num, tot.den * nframes)]
        dP == [j \in 1..nframes |-> [i \in 1..np |-> FracSub(phat[j][i], pbar[i])]]
    IN IF bad THEN [status |-> "IndexError"]
       ELSE [status |-> "ok", phat |-> phat, dP |-> dP]


-----------------------------------------------------------------------------
(* main: src/zen.py 138-228, from the bin-width sweep to the final models *)

FracDiv(a, b) == Frac(a.num * b.den, a.den * b.num)
FracMean(q) == IF Len(q) = 0 THEN NaN
               ELSE LET tot == FracSum(q) IN Frac(tot.num, tot.den * Len(q))

\* phatgood[:,j]
Column(m, j) == [s \in 1..Len(m) |-> m[s][j]]

\* lines 148-164 for the width w: the binned phase, the binned pixel-flux
\* matrix (one row per bin, one column per pixel), the binned photometry
\* and its uncertainty, both divided by the mean of the binned photometry.
\* binphase is the one of the photometry call, the last to assign it.
BinnedFor(w) ==
    LET pix == [j \in 1..npix |-> bindata(phasegood, Column(phatgood, j), w, NoErr)]
        pht == bindata(phasegood, phot, w, WithErr(photerr))
        m == FracMean(pht.y)
    IN [binphase |-> pht.x,
        binphat |-> [k \in 1..Len(pix[1].y) |-> [j \in 1..npix |-> pix[j].y[k]]],
        binphotnorm |-> [k \in 1..Len(pht.y) |-> FracDiv(pht.y[k], m)],
        binphoterrnorm |-> [k \in 1..Len(pht.yerr) |->
                              [sqrt_of |-> pht.yerr[k].sqrt_of, over |-> pht.yerr[k].over,
                               divided_by |-> m]]]

\* chibest is a decimal float [m, e] standing for m * 10^e, so that the
\* start value of line 138 is the source's 1e300 itself
Float(r) == [m |-> r, e |-> 0]

\* zen.py line 138: chibest = 1e300
InsanelyLarge == [m |-> 1, e |-> 300]

RECURSIVE LessScaled(_, _, _)
\* a < b * 10^d for d >= 0, without forming the power
LessScaled(a, b, d) ==
    IF d = 0 THEN a < b
    ELSE IF a = 0 THEN b > 0
    ELSE IF a = -1 THEN b >= 0
    ELSE LessScaled(a \div 10, b, d - 1)

RECURSIVE LessEqScaled(_, _, _)
\* a <= b * 10^d for d >= 0
LessEqScaled(a, b, d) ==
    IF d = 0 THEN a <= b
    ELSE IF a = 0 THEN b >= 0
    ELSE IF a = 1 THEN b > 0
    ELSE LessEqScaled(-((-a) \div 10), b, d - 1)

\* a < b on decimal floats
FloatLess(a, b) ==
    IF a.e <= b.e THEN LessScaled(a.m, b.m, b.e - a.e)
    ELSE ~LessEqScaled(b.m, a.m, a.e - b.e)

\* line 187: is this fit better than the running best
Better_orEqual(redchisq, best) == FloatLess(Float(redchisq), best) \/ Float(redchisq) = best

Better(redchisq, best) == FloatLess(Float(redchisq), best)

\* zen(par, x, phat, npix), lines 175-187, as the terms of its sum: the
\* pixel weights par[:npix] with phat, the eclipse parameters par[npix:-3]
\* with the phases x, and the ramp coefficients par[-3:]
zen(par, xs, ph, np) ==
    [weights |-> SubSeq(par, 1, np),
     phat |-> ph,
     eclparams |-> SubSeq(par, np + 1, Len(par) - 3),
     x |-> xs,
     ramp |-> SubSeq(par, Len(par) - 2, Len(par))]

\* lines 219-226: allParams with the entry named Depth left at 0
NoEclParams(par, names) == [k \in 1..Len(par) |-> IF names[k] = "Depth" THEN 0 ELSE par[k]]

-----------------------------------------------------------------------------
(* Specification of get_params on drawn inputs *)

StepVals == (-(MaxLen + 1)) .. 1
BestPVals == {10, 11}
PriorBases == {20, 30}
\* a prior vector whose entries differ from index to index
PriorVector(base, n) == [i \in 1..n |-> base + i - 1]

gpVars == <<bestP, stepsize, params, allParams>>
binVars == <<x, y, phot, photerr, width, binpix, binpht>>
eclVars == <<t, eclparams, eclret>>
initVars == <<data, pixels, initret>>
sweepVars == <<phasegood, phatgood, bintry, sweep_i, chibest, binbest, chisqarray,
               binphase, binphat, binphotnorm, binphoterrnorm>>
tailVars == <<mcmcargs, bestfit, noeclfit, error, redchisq_log>>
vars == <<gpVars, binVars, eclVars, initVars, sweepVars, tailVars, pc>>

GPIdle == bestP = <<>> /\ stepsize = <<>> /\ params = <<>> /\ allParams = None
BinIdle ==
    /\ x = <<>> /\ y = <<>> /\ phot = <<>> /\ photerr = <<>> /\ width = 0
    /\ binpix = None /\ binpht = None
EclIdle == t = <<>> /\ eclparams = <<>> /\ eclret = None
InitIdle == data = <<>> /\ pixels = <<>> /\ initret = None
MainIdle ==
    /\ phasegood = <<>> /\ phatgood = <<>> /\ bintry = <<>> /\ sweep_i = 0
    /\ chibest = Float(0) /\ binbest = 0 /\ chisqarray = <<>>
    /\ binphase = <<>> /\ binphat = <<>> /\ binphotnorm = <<>> /\ binphoterrnorm = <<>>
    /\ mcmcargs = None /\ bestfit = None /\ noeclfit = None /\ error = None
    /\ redchisq_log = <<>>

InitGP ==
    /\ stepsize \in SeqsUpTo(StepVals, MaxLen)
    /\ params \in {PriorVector(b, Len(stepsize)) : b \in PriorBases}
    /\ bestP \in SeqsUpTo(BestPVals, MaxBestP)
    /\ allParams = None
    /\ pc = "call"
    /\ BinIdle /\ EclIdle /\ InitIdle /\ MainIdle

CallGetParams ==
    /\ pc = "call"
    /\ allParams' = get_params(bestP, stepsize, params)
    /\ pc' = "returned"
    /\ UNCHANGED <<bestP, stepsize, params, binVars, eclVars, initVars, sweepVars, tailVars>>

NextGP == CallGetParams

SpecGP == InitGP /\ [][NextGP]_vars


-----------------------------------------------------------------------------
(* Specification of bindata on drawn inputs: one phase axis binned twice   *)
(* with one width, first with a pixel-flux column, then with the           *)
(* photometry and its uncertainty, as one sweep iteration does.            *)

FluxVals == {0, 1}
PhotBases == {1}
\* a photometry vector of positive fluxes that differ from frame to frame
PhotVector(base, n) == [i \in 1..n |-> base + i]
ErrVector(n) == [i \in 1..n |-> i]

InitBin ==
    /\ x \in SeqsUpTo(0..MaxX, MaxN) \ {<<>>}
    /\ y \in SeqsOfLen(FluxVals, Len(x))
    /\ phot \in {PhotVector(b, Len(x)) : b \in PhotBases}
    /\ photerr = ErrVector(Len(x))
    /\ width \in 1..MaxWidth
    /\ binpix = None /\ binpht = None
    /\ pc = "call"
    /\ GPIdle /\ EclIdle /\ InitIdle /\ MainIdle

\* zen.py line 150: binphase, binphat = bindata(phasegood, phatgood[:,j], width)
BinPixel ==
    /\ pc = "call"
    /\ binpix' = bindata(x, y, width, NoErr)
    /\ pc' = "pixel_binned"
    /\ UNCHANGED <<x, y, phot, photerr, width, binpht, gpVars, eclVars, initVars, sweepVars, tailVars>>

\* zen.py line 157: binphase, binphot, binphoterr = bindata(phasegood, phot, width, yerr=photerr)
BinPhot ==
    /\ pc = "pixel_binned"
    /\ binpht' = bindata(x, phot, width, WithErr(photerr))
    /\ pc' = "returned"
    /\ UNCHANGED <<x, y, phot, photerr, width, binpix, gpVars, eclVars, initVars, sweepVars, tailVars>>

NextBin == BinPixel \/ BinPhot

SpecBin == InitBin /\ [][NextBin]_vars


-----------------------------------------------------------------------------
(* Specification of eclipse on drawn inputs *)

\* midpt, width, depth, t12, t34, flux
EclParamSets ==
    {<<m, w, d, a, b, 1>> : m \in {1, 2}, w \in {-2, 0, 2, 4}, d \in {-1, 0, 1},
                           a \in {0, 1}, b \in {0, 1}}

InitEcl ==
    /\ t \in SeqsUpTo(0..MaxX, MaxN)
    /\ eclparams \in EclParamSets
    /\ eclret = None
    /\ pc = "call"
    /\ GPIdle /\ BinIdle /\ InitIdle /\ MainIdle

CallEclipse ==
    /\ pc = "call"
    /\ eclret' = eclipse(t, eclparams)
    /\ pc' = "returned"
    /\ UNCHANGED <<t, eclparams, gpVars, binVars, initVars, sweepVars, tailVars>>

NextEcl == CallEclipse

SpecEcl == InitEcl /\ [][NextEcl]_vars

-----------------------------------------------------------------------------
(* Specification of zen_init on drawn inputs *)

\* a stack of nf frames of ny rows and nx columns whose samples are positive
\* and differ from pixel to pixel and from frame to frame
FrameStack(nf, ny, nx) ==
    [j \in 0..(nf - 1) |-> [r \in 0..(ny - 1) |-> [c \in 0..(nx - 1) |->
        1 + (j * ny + r) * nx + c + j * j]]]

Coords == (-(MaxDim + 1)) .. MaxDim
PixelLists == SeqsOfLen(Coords \X Coords, 1) \cup SeqsOfLen(Coords \X Coords, 2)

InitZenInit ==
    /\ data \in {FrameStack(nf, ny, nx) : nf \in 1..MaxFrames, ny \in 1..MaxDim, nx \in 1..MaxDim}
    /\ pixels \in PixelLists
    /\ initret = None
    /\ pc = "call"
    /\ GPIdle /\ BinIdle /\ EclIdle /\ MainIdle

CallZenInit ==
    /\ pc = "call"
    /\ initret' = zen_init(data, pixels)
    /\ pc' = "returned"
    /\ UNCHANGED <<data, pixels, gpVars, binVars, eclVars, sweepVars, tailVars>>

NextZenInit == CallZenInit

SpecZenInit == InitZenInit /\ [][NextZenInit]_vars


-----------------------------------------------------------------------------
(* Specification of main from the sweep on.  Init is the state at line 138: *)
(* the good-frame arrays are loaded, bintry is built, the configuration is  *)
(* read.  The solver and the MCMC driver are external: their results are    *)
(* drawn.                                                                   *)

\* strictly increasing phases of at least two good frames
PhaseAxes ==
    {q \in SeqsUpTo(0..MaxX, MaxN) :
        Len(q) >= 2 /\ \A k \in 1..(Len(q) - 1) : q[k] < q[k + 1]}
\* lines 131-134: consecutive candidate widths in increasing order
WidthRanges ==
    {[k \in 1..(hi - lo + 1) |-> lo + k - 1] : lo \in 1..MaxWidth, hi \in 1..MaxWidth} \ {<<>>}
\* reduced chi-squared values a fit can come out with
RedChiVals == {0, 1, 2}

npar == npix + necl + 3
\* the parname entry of the configuration, in the layout of the vector
ParNames ==
    [k \in 1..npar |->
        IF k <= npix THEN "Pixel"
        ELSE IF k = npix + 1 THEN "Midpt"
        ELSE IF k = npix + 2 THEN "Width"
        ELSE IF k = npix + 3 THEN "Depth"
        ELSE IF k = npix + 4 THEN "t12"
        ELSE IF k = npix + 5 THEN "t34"
        ELSE IF k = npix + 6 THEN "Flux"
        ELSE "Ramp"]
\* two stepsize entries of the configuration: the flux norm fixed, and in
\* the second also t34 tied to t12
StepConfigs ==
    {[k \in 1..npar |-> IF k = npix + 6 THEN 0 ELSE 1],
     [k \in 1..npar |-> IF k = npix + 6 THEN 0 ELSE IF k = npix + 5 THEN -(npix + 4) ELSE 1]}

Init ==
    /\ phasegood \in PhaseAxes
    /\ phatgood = [s \in 1..Len(phasegood) |-> [j \in 1..npix |-> 1 + ((s + j) % 2)]]
    /\ phot = PhotVector(1, Len(phasegood))
    /\ photerr = ErrVector(Len(phasegood))
    /\ bintry \in WidthRanges
    /\ sweep_i = 0
    /\ chibest = InsanelyLarge
    /\ binbest = 0                      \* not bound yet
    /\ chisqarray = [k \in 1..Len(bintry) |-> 0]
    /\ binphase = <<>> /\ binphat = <<>> /\ binphotnorm = <<>> /\ binphoterrnorm = <<>>
    /\ stepsize \in StepConfigs
    /\ params = PriorVector(20, npar)
    /\ bestP = <<>> /\ allParams = None
    /\ mcmcargs = None /\ bestfit = None /\ noeclfit = None /\ error = None
    /\ redchisq_log = <<>>
    /\ x = <<>> /\ y = <<>> /\ width = 0 /\ binpix = None /\ binpht = None
    /\ EclIdle /\ InitIdle
    /\ pc = "sweep"

Binning(w) ==
    LET b == BinnedFor(w)
    IN /\ binphase' = b.binphase
       /\ binphat' = b.binphat
       /\ binphotnorm' = b.binphotnorm
       /\ binphoterrnorm' = b.binphoterrnorm

\* lines 143-189, one iteration in which curve_fit returns and line 181
\* computes redchisq
FitConverges(redchisq) ==
    /\ pc = "sweep"
    /\ sweep_i < Len(bintry)
    /\ Binning(bintry[sweep_i + 1])
    /\ chisqarray' = [chisqarray EXCEPT ![sweep_i + 1] = redchisq]
    /\ redchisq_log' = Append(redchisq_log, redchisq)
    /\ IF Better(redchisq, chibest)
       THEN chibest' = Float(redchisq) /\ binbest' = bintry[sweep_i + 1]
       ELSE UNCHANGED <<chibest, binbest>>
    /\ sweep_i' = sweep_i + 1
    /\ UNCHANGED <<phasegood, phatgood, bintry, gpVars, binVars, eclVars, initVars,
                   mcmcargs, bestfit, noeclfit, error, pc>>

\* lines 143-174, one iteration in which curve_fit does not converge: it
\* raises RuntimeError, nothing in main catches it
FitFails ==
    /\ pc = "sweep"
    /\ sweep_i < Len(bintry)
    /\ Binning(bintry[sweep_i + 1])
    /\ error' = "RuntimeError"
    /\ pc' = "aborted"
    /\ UNCHANGED <<phasegood, phatgood, bintry, sweep_i, chibest, binbest, chisqarray,
                   gpVars, binVars, eclVars, initVars, mcmcargs, bestfit, noeclfit,
                   redchisq_log>>

\* line 191: the name plots is bound nowhere in zen.py; the lookup raises
\* NameError unless the module global was bound from outside
PlotsUnbound ==
    /\ pc = "sweep"
    /\ sweep_i = Len(bintry)
    /\ error' = "NameError"
    /\ pc' = "aborted"
    /\ UNCHANGED <<gpVars, binVars, eclVars, initVars, sweepVars, mcmcargs, bestfit,
                   noeclfit, redchisq_log>>

\* lines 191-197 with plots bound: the figure changes nothing of the state
PlotsBound ==
    /\ pc = "sweep"
    /\ sweep_i = Len(bintry)
    /\ pc' = "mcmc"
    /\ UNCHANGED <<gpVars, binVars, eclVars, initVars, sweepVars, tailVars>>

\* lines 201-207: the driver is handed the binned arrays and returns bp
CallMCMC(bp) ==
    /\ pc = "mcmc"
    /\ mcmcargs' = [data |-> binphotnorm, uncert |-> binphoterrnorm,
                    indparams |-> <<binphase, binphat, npix>>]
    /\ bestP' = bp
    /\ pc' = "expand"
    /\ UNCHANGED <<stepsize, params, allParams, binVars, eclVars, initVars, sweepVars,
                   bestfit, noeclfit, error, redchisq_log>>

\* line 210
Expand ==
    /\ pc = "expand"
    /\ LET ret == get_params(bestP, stepsize, params)
       IN IF ret.status = "ok"
          THEN allParams' = ret /\ pc' = "models" /\ error' = error
          ELSE allParams' = allParams /\ pc' = "aborted" /\ error' = ret.status
    /\ UNCHANGED <<bestP, stepsize, params, binVars, eclVars, initVars, sweepVars,
                   mcmcargs, bestfit, noeclfit, redchisq_log>>

\* lines 213-228
FinalModels ==
    /\ pc = "models"
    /\ bestfit' = zen(allParams.value, binphase, binphat, npix)
    /\ noeclfit' = zen(NoEclParams(allParams.value, ParNames), binphase, binphat, npix)
    /\ pc' = "done"
    /\ UNCHANGED <<gpVars, binVars, eclVars, initVars, sweepVars, mcmcargs, error,
                   redchisq_log>>

\* what the driver can return: as many entries as free parameters, or one
\* fewer
DriverResults == {PriorVector(50, n) : n \in {NumFreeOf(stepsize), NumFreeOf(stepsize) - 1}}

Next ==
    \/ \E r \in RedChiVals : FitConverges(r)
    \/ FitFails
    \/ PlotsUnbound
    \/ PlotsBound
    \/ \E bp \in DriverResults : CallMCMC(bp)
    \/ Expand
    \/ FinalModels

Spec == Init /\ [][Next]_vars

-----------------------------------------------------------------------------
(* Claims about get_params *)

NumFree(ss) == Cardinality({i \in 1..Len(ss) : ss[i] > 0})
\* rank of index i among the positive entries of ss
Rank(ss, i) == Cardinality({k \in 1..i : ss[k] > 0})
\* every negative entry names an index inside the vector
TiesInRange(ss) == \A i \in 1..Len(ss) : ss[i] < 0 => -ss[i] <= Len(ss)
\* ... whose own entry is not negative
TiesDepthOne(ss) ==
    /\ TiesInRange(ss)
    /\ \A i \in 1..Len(ss) : ss[i] < 0 => ss[-ss[i]] >= 0

\* free entries hold bestP in rank order, fixed entries the prior
FreeAndFixedPlaced(ret) ==
    /\ ret.status = "ok"
    /\ Len(ret.value) = Len(stepsize)
    /\ \A i \in 1..Len(stepsize) :
          /\ stepsize[i] > 0 => ret.value[i] = bestP[Rank(stepsize, i)]
          /\ stepsize[i] = 0 => ret.value[i] = params[i]

\* C1: with as many bestP entries as positive step sizes, params as long as
\* stepsize and every tie naming a non-tied index, get_params returns a
\* vector of len(stepsize) entries: positive entries hold bestP in rank
\* order, zero entries hold params, negative entries hold the returned value
\* at index -stepsize-1.
C1_Expansion ==
    (/\ pc = "returned"
     /\ Len(bestP) = NumFree(stepsize)
     /\ Len(params) = Len(stepsize)
     /\ TiesDepthOne(stepsize))
    => (/\ FreeAndFixedPlaced(allParams)
        /\ \A i \in 1..Len(stepsize) :
              stepsize[i] < 0 => allParams.value[i] = allParams.value[-stepsize[i]])

\* a call with a free, a fixed and a tied entry, the tie pointing forward to
\* a free entry
C1_Witness ==
    /\ pc = "returned"
    /\ stepsize = <<-2, 1, 0>>
    /\ Len(bestP) = 1
    /\ allParams.status = "ok"
    /\ allParams.value[1] = bestP[1]

\* C2: any length mismatch between bestP and the number of positive step
\* sizes, bestP shorter or longer, makes get_params fail and return no
\* parameter vector.
C2_AnyMismatchFails ==
    (pc = "returned" /\ Len(bestP) # NumFree(stepsize)) => allParams.status # "ok"

-----------------------------------------------------------------------------
(* Claims about bindata *)

\* the bin edges of the drawn call
Edges == arange(SeqMin(x), SeqMax(x), width)
\* sample s lies in bin i: at or after edge i and before the next edge (the
\* last bin is open to the right)
SampleInBin(s, i) ==
    /\ Edges[i] <= x[s]
    /\ (i < Len(Edges) => x[s] < Edges[i + 1])
SamplesOf(i) == {s \in 1..Len(x) : SampleInBin(s, i)}
Occupied == {i \in 1..Len(Edges) : SamplesOf(i) # {}}
\* the k-th occupied bin in increasing bin order
KthOccupied(k) == CHOOSE i \in Occupied : Cardinality({j \in Occupied : j < i}) = k - 1
\* mean of a over the samples of bin i
RECURSIVE SetSum(_, _)
SetSum(a, S) == IF S = {} THEN 0 ELSE LET s == CHOOSE e \in S : TRUE IN a[s] + SetSum(a, S \ {s})
BinMeanOf(a, i) == Frac(SetSum(a, SamplesOf(i)), Cardinality(SamplesOf(i)))

\* C3: the arrays bindata returns all have as many entries as there are
\* bins with at least one sample; entry k is the mean over the k-th occupied
\* bin in increasing bin order, so no entry stands for an empty bin and none
\* is NaN.
C3_OnlyOccupiedBins ==
    pc = "returned" =>
        /\ Len(binpht.x) = Cardinality(Occupied)
        /\ Len(binpht.y) = Cardinality(Occupied)
        /\ Len(binpht.yerr) = Cardinality(Occupied)
        /\ Len(binpix.x) = Cardinality(Occupied)
        /\ Len(binpix.y) = Cardinality(Occupied)
        /\ \A k \in 1..Len(binpht.x) :
              /\ binpht.x[k] = BinMeanOf(x, KthOccupied(k))
              /\ binpht.y[k] = BinMeanOf(phot, KthOccupied(k))
              /\ binpht.yerr[k] # ErrNaN
              /\ binpht.yerr[k].over = Cardinality(SamplesOf(KthOccupied(k)))
              /\ binpix.x[k] # NaN /\ binpix.y[k] # NaN
        /\ \A k \in 1..(Len(binpht.x) - 1) : FracLess(binpht.x[k], binpht.x[k + 1])

\* a call whose edges leave a bin between two occupied bins without samples
C3_Witness ==
    /\ pc = "returned"
    /\ Len(Edges) = 3
    /\ Occupied = {1, 3}
    /\ Len(binpht.x) = 2

\* C4 as stated: a width of at least max(x) - min(x), the range 0 of equal
\* x values included, gives exactly one bin holding the mean of all y and
\* the mean of all x.
C4_WideWidthOneBin ==
    (pc = "returned" /\ width >= SeqMax(x) - SeqMin(x)) =>
        /\ Len(binpht.x) = 1 /\ Len(binpht.y) = 1
        /\ binpht.y[1] = Mean(phot)
        /\ binpht.x[1] = Mean(x)

\* C10: the binned phase and the number of bins do not depend on the y
\* array: the pixel call and the photometry call of one iteration return the
\* same binned phase, and entry k of the binned pixel flux, of the binned
\* photometry and of the binned phase are means over the same bin.
C10_PhaseIndependentOfY ==
    pc = "returned" =>
        /\ binpix.x = binpht.x
        /\ Len(binpix.y) = Len(binpht.y)
        /\ Len(binpix.y) = Len(binpix.x)
        /\ \A k \in 1..Len(binpix.y) :
              \E i \in Occupied :
                  /\ binpix.y[k] = BinMeanOf(y, i)
                  /\ binpht.y[k] = BinMeanOf(phot, i)
                  /\ binpht.x[k] = BinMeanOf(x, i)

\* two calls on a phase axis with several occupied bins, one of them holding
\* only zero pixel flux
C10_Witness ==
    /\ pc = "returned"
    /\ Cardinality(Occupied) >= 2
    /\ \E i \in Occupied : \A s \in SamplesOf(i) : y[s] = 0
    /\ Len(binpix.x) >= 2

-----------------------------------------------------------------------------
(* Claims about eclipse *)

\* C9: with depth 0 the result is a sequence of 1s as long as t, whatever
\* the other five parameters, and the path divides by nothing.
C9_ZeroDepthFlat ==
    (pc = "returned" /\ eclparams[3] = 0) =>
        /\ Len(eclret.y) = Len(t)
        /\ \A i \in 1..Len(t) : eclret.y[i] = Level(1)
        /\ eclret.divisors = {}

\* a zero-depth call whose samples would lie in ingress and in full eclipse
\* had the depth test not returned first
C9_Witness ==
    /\ pc = "returned"
    /\ eclparams = <<2, 4, 0, 1, 1, 1>>
    /\ t = <<0, 2>>
    /\ eclret.y = <<Level(1), Level(1)>>

-----------------------------------------------------------------------------
(* Claims about zen_init *)

OutOfBounds(px) ==
    LET ny == Cardinality(DOMAIN data[0])
        nx == Cardinality(DOMAIN data[0][0])
    IN px[1] < 0 \/ px[1] >= ny \/ px[2] < 0 \/ px[2] >= nx

\* C8 as stated: a pixel coordinate outside the image, negative ones
\* included, makes zen_init fail with an index error and return no matrices.
C8_OutOfBoundsFails ==
    (pc = "returned" /\ \E i \in 1..Len(pixels) : OutOfBounds(pixels[i]))
        => initret.status = "IndexError"

-----------------------------------------------------------------------------
(* Claims about the bin-width sweep *)

\* every candidate width has been through lines 143-189
SweepComplete == pc # "call" /\ Len(bintry) > 0 /\ sweep_i = Len(bintry)

MinOf(q) == SeqMin(q)
\* position of the first candidate whose reduced chi-squared is the minimum
FirstMin(q) == CHOOSE k \in 1..Len(q) : q[k] = MinOf(q) /\ \A j \in 1..(k - 1) : q[j] # MinOf(q)

\* C5: once all candidate widths have been processed, chibest is the
\* minimum reduced chi-squared over all candidates, binbest the first width
\* in scan order that reached it, and chisqarray holds the reduced
\* chi-squared of every candidate.
C5_BestIsFirstMinimum ==
    SweepComplete =>
        /\ Len(redchisq_log) = Len(bintry)
        /\ chisqarray = redchisq_log
        /\ chibest = Float(MinOf(redchisq_log))
        /\ binbest = bintry[FirstMin(redchisq_log)]

\* a finished sweep of three widths in which the minimum was reached by the
\* first width and again by the last
C5_Witness ==
    /\ SweepComplete
    /\ Len(bintry) = 3
    /\ redchisq_log[1] = 1 /\ redchisq_log[2] = 2 /\ redchisq_log[3] = 1
    /\ binbest = bintry[1]

\* number of candidate widths whose fit was attempted
Attempted == sweep_i + (IF error = "RuntimeError" THEN 1 ELSE 0)

\* C6 as stated: a fit that does not converge costs only its own width and
\* the sweep goes on to every remaining width; the sweep ends with the
\* solver's error only when every candidate width was attempted and none
\* converged.
C6_FailedWidthIsSkipped ==
    error = "RuntimeError" =>
        /\ Attempted = Len(bintry)
        /\ redchisq_log = <<>>

\* the binned arrays of the width w, as lines 201-228 name them
ArraysOf(w) ==
    LET b == BinnedFor(w)
    IN [data |-> b.binphotnorm, uncert |-> b.binphoterrnorm,
        indparams |-> <<b.binphase, b.binphat, npix>>]

\* C7 as stated: after the sweep, the binned phase, pixel-flux matrix,
\* normalized photometry and uncertainty that lines 201-228 use (the MCMC
\* call and the two final model evaluations) are those of binbest.
C7_BestWidthArraysUsed ==
    /\ SweepComplete =>
          [data |-> binphotnorm, uncert |-> binphoterrnorm,
           indparams |-> <<binphase, binphat, npix>>] = ArraysOf(binbest)
    /\ pc \in {"expand", "models", "done"} => mcmcargs = ArraysOf(binbest)
    /\ pc = "done" =>
          /\ bestfit.x = ArraysOf(binbest).indparams[1]
          /\ bestfit.phat = ArraysOf(binbest).indparams[2]
          /\ noeclfit.x = ArraysOf(binbest).indparams[1]
          /\ noeclfit.phat = ArraysOf(binbest).indparams[2]

====
